---- MODULE Spec2Model ----
(***************************************************************************)
(* Moderation pipeline of ai-content-moderator-backend.                    *)
(*                                                                         *)
(* AgentService.runModeration (src/src/agent/agent.service.ts) loads a     *)
(* submission row, threads a moderation state through the six workflow     *)
(* nodes analyze_image, analyze_text, make_decision,                       *)
(* evaluate_image_replacement, generate_image, reanalyze_generated_image   *)
(* and renders status, summary and reasoning.  SubmissionsController.submit*)
(* (src/src/submissions/submissions.controller.ts) inserts the row, awaits *)
(* runModeration and writes the result back.  The fire-and-forget submit   *)
(* (src/unnamed/part_003) inserts the row as pending/queued and starts     *)
(* runModerationAsync, which records its stage in the row as it goes.      *)
(*                                                                         *)
(* Beside the run of one submission (Spec) the module holds the rule of    *)
(* evaluate_image_replacement on every state (EvaluationSpec), the         *)
(* rendering of every final record (ReasoningSpec), the prompt posted to   *)
(* the images endpoint for every content (SanitizeSpec), two runs taking   *)
(* turns (SideBySideSpec), the fire-and-forget run (AsyncSpec) and the     *)
(* answer of its submit to the submitter (FireAndForgetSpec).              *)
(*                                                                         *)
(* Numbers: a toxicity is kept in tenths (0.7 is 7).  JavaScript values    *)
(* are records [t, n, s, b] tagged with their typeof.  The text a vision   *)
(* capability returns is a sequence of words.                              *)
(***************************************************************************)
EXTENDS Integers, Sequences, FiniteSets, TLC

VARIABLES
    pc,             \* position of the run
    request,        \* what the submitter sent
    row,            \* the submissions row of this id in the store
    fetched,        \* what the store answered to runModeration's lookup
    state,          \* the moderation state threaded through the workflow
    result,         \* what runModeration returned
    uploadedImageUrl, \* public URL of the generated image once it is stored
    error,          \* message of the exception that escaped, "" when none
    origImageUrl,   \* payload.imageUrl at the start of the workflow
    baseDecision,   \* decision as make_decision returned it
    evalInput,      \* state that entered evaluate_image_replacement
    imageOutcome,   \* what happened in analyze_image
    textOutcome,    \* what happened in analyze_text
    decisionOutcome,\* what happened in make_decision
    genOutcome,     \* what happened in generate_image
    reanOutcome,    \* what happened in reanalyze_generated_image
    calls,          \* number of calls made to each capability
    promptText,     \* the content handed to generateImageNode, as characters
    sentPrompt,     \* the prompt posted to the images endpoint
    runs,           \* the runs in progress side by side, by submission id
    response        \* what the fire-and-forget submit answered the submitter

vars == <<pc, request, row, fetched, state, result, uploadedImageUrl, error,
          origImageUrl, baseDecision, evalInput, imageOutcome, textOutcome,
          decisionOutcome, genOutcome, reanOutcome, calls, promptText,
          sentPrompt, runs, response>>

-----------------------------------------------------------------------------
(* Bounds of the model *)

\* largest toxicity (tenths) a text-analysis response carries
MaxTox == 11
\* largest number of words in a vision capability's answer
MaxDescLen == 2
\* largest number of runs of one character in a submitted text
MaxTextRuns == 3

-----------------------------------------------------------------------------
(* JavaScript values *)

JUndef == [t |-> "undefined", n |-> 0, s |-> "", b |-> FALSE]
JNull == [t |-> "null", n |-> 0, s |-> "", b |-> FALSE]
JNum(x) == [t |-> "number", n |-> x, s |-> "", b |-> FALSE]
JStr(x) == [t |-> "string", n |-> 0, s |-> x, b |-> FALSE]
JBool(x) == [t |-> "boolean", n |-> 0, s |-> "", b |-> x]

\* Boolean(v), and the test of ||, && and !
Truthy(v) ==
    CASE v.t = "number" -> v.n # 0
      [] v.t = "string" -> v.s # ""
      [] v.t = "boolean" -> v.b
      [] OTHER -> FALSE

\* the test of ?? and ?.
Nullish(v) == v.t \in {"undefined", "null"}

\* a || d
OrElse(v, d) == IF Truthy(v) THEN v ELSE d

\* a ?? d
Coalesce(v, d) == IF Nullish(v) THEN d ELSE v

-----------------------------------------------------------------------------
(* Text returned by the vision capability: a sequence of words *)

Words == {"cat", "No", "NSFW", "nsfw", "Violence", "harmful", "harm"}

RECURSIVE SeqsUpTo(_, _)
SeqsUpTo(S, k) ==
    IF k = 0 THEN {<<>>}
    ELSE LET shorter == SeqsUpTo(S, k - 1)
         IN  shorter \cup {Append(q, w) : q \in shorter, w \in S}

Descriptions == SeqsUpTo(Words, MaxDescLen)

\* String.prototype.toLowerCase, word by word
LowerWord(w) ==
    CASE w = "No" -> "no"
      [] w = "NSFW" -> "nsfw"
      [] w = "Violence" -> "violence"
      [] OTHER -> w

toLowerCase(text) == [i \in 1..Len(text) |-> LowerWord(text[i])]

\* the words that have `marker` as a substring
Containing(marker) ==
    CASE marker = "harm" -> {"harm", "harmful"}
      [] OTHER -> {marker}

\* String.prototype.includes
includes(text, marker) ==
    \E i \in 1..Len(text) : text[i] \in Containing(marker)

\* response.content.toString()
RECURSIVE contentToString(_)
contentToString(text) ==
    IF Len(text) = 0 THEN ""
    ELSE IF Len(text) = 1 THEN text[1]
    ELSE text[1] \o " " \o contentToString(Tail(text))

-----------------------------------------------------------------------------
(* The moderation state (ModerationState) *)

NoTechnicalAnalysis ==
    [present |-> FALSE, toxicity |-> JUndef, nsfw_text |-> JUndef,
     nsfw_image |-> JUndef, violence |-> JUndef,
     image_replaced_by_ai |-> JUndef]

NoTextAnalysis == [present |-> FALSE, summary |-> JUndef]

\* the state the workflow starts from: the payload under the schema's defaults
ModerationState(payload) ==
    [type |-> payload.type,
     content |-> payload.content,
     imageUrl |-> payload.imageUrl,
     imageDescription |-> JUndef,
     decision |-> JStr("approved"),
     shouldReplaceImage |-> FALSE,
     generatedImageUrl |-> JUndef,
     technicalAnalysis |-> NoTechnicalAnalysis,
     textAnalysis |-> NoTextAnalysis]

NoState == ModerationState([type |-> JUndef, content |-> JUndef, imageUrl |-> JUndef])

\* what a node hands back: the new state, or the exception that left it;
\* used: the capabilities the node called on the way
Returned(st, used) == [threw |-> FALSE, message |-> "", st |-> st, used |-> used]
Thrown(msg, used) == [threw |-> TRUE, message |-> msg, st |-> NoState, used |-> used]

-----------------------------------------------------------------------------
(* Responses of the reasoning capability and their parsing *)

\* The raw text of a response is a sequence of segments: "prose" (text
\* without braces), "object" (one JSON object, from its { to its }),
\* "null" and "number" (JSON literals).
RawTexts ==
    {<<"object">>, <<"prose", "object", "prose">>,
     <<"object", "prose", "object">>, <<"prose">>, <<"null">>, <<"number">>}

ObjectPositions(raw) == {i \in 1..Len(raw) : raw[i] = "object"}

Min(S) == CHOOSE x \in S : \A y \in S : x <= y
Max(S) == CHOOSE x \in S : \A y \in S : x >= y

\* raw.match(/\{[\s\S]*\}/): the region from the first { to the last }
Match(raw) ==
    LET at == ObjectPositions(raw)
    IN  IF at = {} THEN [found |-> FALSE, text |-> <<>>]
        ELSE [found |-> TRUE, text |-> SubSeq(raw, Min(at), Max(at))]

\* match ? match[0] : raw
JsonStr(raw) == IF Match(raw).found THEN Match(raw).text ELSE raw

\* JSON.parse: the kind of value it yields, "error" when it throws
JsonParse(text) ==
    IF Len(text) = 1 /\ text[1] \in {"object", "null", "number"}
    THEN text[1]
    ELSE "error"

-----------------------------------------------------------------------------
(* What the capabilities can answer *)

\* the toxicities (tenths) a response carries: the range asked for, and
\* numbers below and above it
Toxicities == {-1} \cup 0..MaxTox

\* members of the object in a text-analysis response
TextObjects ==
    [toxicity : {JUndef, JStr("high")} \cup {JNum(n) : n \in Toxicities},
     nsfw_text : {JUndef, JBool(TRUE), JBool(FALSE)},
     summary : {JUndef, JStr("ok")}]

\* an object without the members read: {} and every primitive
EmptyTextObject == [toxicity |-> JUndef, nsfw_text |-> JUndef, summary |-> JUndef]

HasObject(raw) == ObjectPositions(raw) # {}

TextResponses ==
    {[threw |-> TRUE, raw |-> <<>>, obj |-> EmptyTextObject]}
    \cup {[threw |-> FALSE, raw |-> raw, obj |-> EmptyTextObject] :
            raw \in {r \in RawTexts : ~HasObject(r)}}
    \cup {[threw |-> FALSE, raw |-> raw, obj |-> o] :
            raw \in {r \in RawTexts : HasObject(r)}, o \in TextObjects}

\* parsed.technicalAnalysis of a decision response: absent, or an object
DecisionFlags ==
    {[given |-> FALSE, nsfw_image |-> JUndef, violence |-> JUndef]}
    \cup [given : {TRUE},
          nsfw_image : {JUndef, JBool(TRUE), JBool(FALSE)},
          violence : {JUndef, JBool(TRUE), JBool(FALSE)}]

DecisionObjects ==
    [decision : {JUndef, JStr("approved"), JStr("flagged"), JStr("rejected"),
                 JStr("banana")},
     summary : {JUndef, JStr("verdict")},
     technicalAnalysis : DecisionFlags]

EmptyDecisionObject ==
    [decision |-> JUndef, summary |-> JUndef,
     technicalAnalysis |-> [given |-> FALSE, nsfw_image |-> JUndef,
                            violence |-> JUndef]]

DecisionResponses ==
    {[threw |-> TRUE, raw |-> <<>>, obj |-> EmptyDecisionObject]}
    \cup {[threw |-> FALSE, raw |-> raw, obj |-> EmptyDecisionObject] :
            raw \in {r \in RawTexts : ~HasObject(r)}}
    \cup {[threw |-> FALSE, raw |-> raw, obj |-> o] :
            raw \in {r \in RawTexts : HasObject(r)}, o \in DecisionObjects}

\* a look at an image: the download, then the vision capability
VisionOutcomes(texts) ==
    {[downloaded |-> FALSE, threw |-> FALSE, text |-> <<>>],
     [downloaded |-> TRUE, threw |-> TRUE, text |-> <<>>]}
    \cup {[downloaded |-> TRUE, threw |-> FALSE, text |-> d] : d \in texts}

\* answers to the first look at the submitted image
FirstLooks == VisionOutcomes(SeqsUpTo({"cat", "NSFW"}, 1))

\* answers to the look at the generated image
SecondLooks == VisionOutcomes(Descriptions)

\* the images endpoint: raised, or answered with data[0].url
GenerationOutcomes ==
    {[threw |-> TRUE, url |-> JUndef],
     [threw |-> FALSE, url |-> JUndef],
     [threw |-> FALSE, url |-> JStr("gen.png")]}

-----------------------------------------------------------------------------
(* Program constants, in tenths *)

\* the toxicity substituted for a missing or non-numeric one
DefaultToxicity == 5
\* replacement is planned only below this toxicity
ReplaceToxicityLimit == 7

-----------------------------------------------------------------------------
(* The workflow nodes *)

\* the early return of analyzeImageNode
ImageAnalysisSkipped(st) == ~Truthy(st.imageUrl)

analyzeImageNodeRaising(st, look) ==
    IF ImageAnalysisSkipped(st) THEN Returned(st, {})
    ELSE IF ~look.downloaded
    THEN Returned([st EXCEPT !.imageDescription = JStr("Image analysis failed")],
                  {"download"})
    ELSE IF look.threw
    THEN Thrown("vision capability failed", {"download", "vision"})
    ELSE Returned([st EXCEPT !.imageDescription = JStr(contentToString(look.text))],
                  {"download", "vision"})

\* analyzeImageNode: the description of the image, or the sentinel when the
\* download or the vision capability failed
analyzeImageNode(st, look) ==
    IF ImageAnalysisSkipped(st) THEN Returned(st, {})
    ELSE IF ~look.downloaded
    THEN Returned([st EXCEPT !.imageDescription = JStr("Image analysis failed")],
                  {"download"})
    ELSE IF look.threw
    THEN Returned([st EXCEPT !.imageDescription = JStr("Image analysis failed")],
                  {"download", "vision"})
    ELSE Returned([st EXCEPT !.imageDescription = JStr(contentToString(look.text))],
                  {"download", "vision"})

TextFallbackLenient ==
    [toxicity |-> JNum(0), nsfw_text |-> JBool(FALSE),
     summary |-> JStr("No summary")]

\* the object the catch block of analyzeTextNode substitutes
TextFallback ==
    [toxicity |-> JNum(DefaultToxicity), nsfw_text |-> JBool(FALSE),
     summary |-> JStr("Text analysis error")]

\* typeof parsed.toxicity === 'number' ? parsed.toxicity : 0.5
TextToxicity(parsed) ==
    IF parsed.toxicity.t = "number" THEN parsed.toxicity
    ELSE JNum(DefaultToxicity)

\* the early return of analyzeTextNode
TextAnalysisSkipped(st) == ~Truthy(st.content)

analyzeTextNode(st, resp) ==
    IF TextAnalysisSkipped(st) THEN Returned(st, {})
    ELSE IF resp.threw THEN Thrown("reasoning capability failed", {"reasoning"})
    ELSE LET kind == JsonParse(JsonStr(resp.raw))
             parsed == CASE kind = "error" -> TextFallback
                         [] kind = "object" -> resp.obj
                         [] OTHER -> EmptyTextObject
         IN  IF kind = "null"
             THEN Thrown("Cannot read properties of null", {"reasoning"})
             ELSE Returned(
                    [st EXCEPT
                       !.textAnalysis =
                           [present |-> TRUE,
                            summary |-> OrElse(parsed.summary, JStr("No summary"))],
                       !.technicalAnalysis =
                           [@ EXCEPT !.present = TRUE,
                                     !.toxicity = TextToxicity(parsed),
                                     !.nsfw_text = JBool(Truthy(parsed.nsfw_text))]],
                    {"reasoning"})

\* the object the catch block of makeDecisionNode substitutes
DecisionFallback ==
    [decision |-> JStr("flagged"), summary |-> JStr("Moderation error occurred"),
     technicalAnalysis |-> [given |-> TRUE, nsfw_image |-> JBool(FALSE),
                            violence |-> JBool(FALSE)]]

\* parsed.technicalAnalysis || {nsfw_image: false, violence: false}
DecisionTechAnalysis(parsed) ==
    IF parsed.technicalAnalysis.given THEN parsed.technicalAnalysis
    ELSE [given |-> TRUE, nsfw_image |-> JBool(FALSE), violence |-> JBool(FALSE)]

DecisionOfApproving(parsed) == OrElse(parsed.decision, JStr("approved"))

\* parsed.decision || 'flagged'
DecisionOf(parsed) == OrElse(parsed.decision, JStr("flagged"))

makeDecisionNode(st, resp) ==
    IF resp.threw THEN Thrown("reasoning capability failed", {"reasoning"})
    ELSE LET kind == JsonParse(JsonStr(resp.raw))
             parsed == CASE kind = "error" -> DecisionFallback
                         [] kind = "object" -> resp.obj
                         [] OTHER -> EmptyDecisionObject
             techAnalysis == DecisionTechAnalysis(parsed)
         IN  IF kind = "null"
             THEN Thrown("Cannot read properties of null", {"reasoning"})
             ELSE Returned(
                    [st EXCEPT
                       !.decision = DecisionOf(parsed),
                       !.textAnalysis =
                           [present |-> TRUE,
                            summary |-> OrElse(parsed.summary,
                                               JStr("No summary provided"))],
                       !.technicalAnalysis =
                           [present |-> TRUE,
                            toxicity |-> Coalesce(st.technicalAnalysis.toxicity,
                                                  JNum(DefaultToxicity)),
                            nsfw_text |-> Coalesce(st.technicalAnalysis.nsfw_text,
                                                   JBool(FALSE)),
                            nsfw_image |-> JBool(Truthy(techAnalysis.nsfw_image)),
                            violence |-> JBool(Truthy(techAnalysis.violence)),
                            image_replaced_by_ai |-> JUndef]],
                    {"reasoning"})

\* state.technicalAnalysis?.nsfw_image || state.technicalAnalysis?.violence
hasImageIssues(st) ==
    Truthy(st.technicalAnalysis.nsfw_image) \/ Truthy(st.technicalAnalysis.violence)

\* state.technicalAnalysis?.toxicity ?? 0
textToxicity(st) == Coalesce(st.technicalAnalysis.toxicity, JNum(0)).n

\* a comparison that lets the limit itself through
ReplacementPlannedInclusive(st) ==
    hasImageIssues(st) /\ textToxicity(st) <= ReplaceToxicityLimit

\* hasImageIssues && textToxicity < 0.7
ReplacementPlanned(st) == hasImageIssues(st) /\ textToxicity(st) < ReplaceToxicityLimit

\* an evaluation without the early return
EvaluationNeverSkipped(st) == FALSE

\* the early return of evaluateImageReplacementNode
EvaluationSkipped(st) == ~Truthy(st.imageUrl)

evaluateImageReplacementNode(st) ==
    IF EvaluationSkipped(st) THEN Returned(st, {})
    ELSE Returned([st EXCEPT !.shouldReplaceImage = ReplacementPlanned(st)], {})

\* a catch block that also overrides the decision
GenerationFailedFlagging(st) ==
    [st EXCEPT !.shouldReplaceImage = FALSE, !.generatedImageUrl = JUndef,
               !.decision = JStr("flagged")]

\* the catch block of generateImageNode
GenerationFailed(st) ==
    [st EXCEPT !.shouldReplaceImage = FALSE, !.generatedImageUrl = JUndef]

\* an early return that does not look at the content
GenerationSkippedWhateverContent(st) == ~st.shouldReplaceImage

\* the early return of generateImageNode
GenerationSkipped(st) == ~st.shouldReplaceImage \/ ~Truthy(st.content)

generateImageNode(st, gen) ==
    IF GenerationSkipped(st) THEN Returned(st, {})
    ELSE IF gen.threw THEN Returned(GenerationFailed(st), {"generation"})
    ELSE Returned([st EXCEPT !.generatedImageUrl = gen.url], {"generation"})

-----------------------------------------------------------------------------
(* sanitizePromptForImageGeneration *)
(*                                                                         *)
(* A text is a sequence of runs [c, n]: n times the character c.  The      *)
(* characters stand for their classes: "a" a letter, "7" a digit, " "      *)
(* whitespace, "!" anything else.                                          *)

Letters == {"a"}
Digits == {"7"}
Whitespace == {" "}
Punctuation == {"!"}
Chars == Letters \cup Digits \cup Whitespace \cup Punctuation

\* lengths of a run: one character, and around the limit of the prompt
RunLengths == {1, 299, 300}

\* the contents generateImageNode may get: any text that is not empty
Texts ==
    UNION {[1..k -> [c : Chars, n : RunLengths]] : k \in 1..MaxTextRuns}

\* text.length
RECURSIVE length(_)
length(text) ==
    IF text = <<>> THEN 0 ELSE Head(text).n + length(Tail(text))

\* the class [^a-zA-Z0-9\s]
Stripped(c) == c \notin Letters \cup Digits \cup Whitespace

\* text.replace(/[^a-zA-Z0-9\s]/g, '')
replace(text) == SelectSeq(text, LAMBDA run : ~Stripped(run.c))

substringInclusive(text, end) ==
    LET RECURSIVE take(_, _)
        take(t, k) ==
            IF t = <<>> \/ k < 0 THEN <<>>
            ELSE IF Head(t).n <= k THEN <<Head(t)>> \o take(Tail(t), k - Head(t).n)
            ELSE <<[Head(t) EXCEPT !.n = k + 1]>>
    IN  take(text, end)

\* text.substring(0, end): the first end characters
substring(text, end) ==
    LET RECURSIVE take(_, _)
        take(t, k) ==
            IF t = <<>> \/ k = 0 THEN <<>>
            ELSE IF Head(t).n <= k THEN <<Head(t)>> \o take(Tail(t), k - Head(t).n)
            ELSE <<[Head(t) EXCEPT !.n = k]>>
    IN  take(text, end)

RECURSIVE trimStart(_)
trimStart(text) ==
    IF text # <<>> /\ Head(text).c \in Whitespace THEN trimStart(Tail(text))
    ELSE text

RECURSIVE trimEnd(_)
trimEnd(text) ==
    IF text # <<>> /\ text[Len(text)].c \in Whitespace
    THEN trimEnd(SubSeq(text, 1, Len(text) - 1))
    ELSE text

\* text.trim()
trim(text) == trimEnd(trimStart(text))

\* the longest cleaned text a prompt carries
MaxPromptLength == 300

TemplateBefore == "A professional, family-friendly illustration based on: \""
TemplateAfter == "\". Safe for all ages."

\* the template literal around the cleaned text
sanitizePromptForImageGeneration(text) ==
    [before |-> TemplateBefore,
     cleaned |-> trim(substring(replace(text), MaxPromptLength)),
     after |-> TemplateAfter]

\* no prompt was posted
NoPrompt == [before |-> "", cleaned |-> <<>>, after |-> ""]

\* a marker test that forgets to lower-case the analysis
isSafeCaseSensitive(analysis) ==
    /\ ~includes(analysis, "nsfw")
    /\ ~includes(analysis, "violence")
    /\ ~includes(analysis, "harmful")

\* no marker in the lower-cased analysis of the generated image
isSafe(analysis) ==
    /\ ~includes(toLowerCase(analysis), "nsfw")
    /\ ~includes(toLowerCase(analysis), "violence")
    /\ ~includes(toLowerCase(analysis), "harmful")

GeneratedImageDiscardedFlagging(st) ==
    [st EXCEPT !.shouldReplaceImage = FALSE, !.generatedImageUrl = JUndef,
               !.decision = JStr("flagged")]

\* the else branch and the catch block of reanalyzeGeneratedImageNode
GeneratedImageDiscarded(st) ==
    [st EXCEPT !.shouldReplaceImage = FALSE, !.generatedImageUrl = JUndef]

GeneratedImageAcceptedKeepingFlags(st) ==
    [st EXCEPT !.technicalAnalysis =
                  [@ EXCEPT !.present = TRUE,
                            !.image_replaced_by_ai = JBool(TRUE)]]

\* the isSafe branch of reanalyzeGeneratedImageNode
GeneratedImageAccepted(st) ==
    [st EXCEPT !.technicalAnalysis =
                  [@ EXCEPT !.present = TRUE,
                            !.nsfw_image = JBool(FALSE),
                            !.violence = JBool(FALSE),
                            !.image_replaced_by_ai = JBool(TRUE)]]

ReanalysisAlwaysSkipped(st) == TRUE

\* the early return of reanalyzeGeneratedImageNode
ReanalysisSkipped(st) == ~Truthy(st.generatedImageUrl) \/ ~st.shouldReplaceImage

reanalyzeGeneratedImageNode(st, look) ==
    IF ReanalysisSkipped(st) THEN Returned(st, {})
    ELSE IF ~look.downloaded
    THEN Returned(GeneratedImageDiscarded(st), {"download"})
    ELSE IF look.threw
    THEN Returned(GeneratedImageDiscarded(st), {"download", "vision"})
    ELSE IF isSafe(look.text)
    THEN Returned(GeneratedImageAccepted(st), {"download", "vision"})
    ELSE Returned(GeneratedImageDiscarded(st), {"download", "vision"})

-----------------------------------------------------------------------------
(* AgentService *)

toFixed0(tenths) == ToString(tenths * 10)

\* (analysis.toxicity * 100).toFixed(1) of a toxicity in tenths
toFixed1(tenths) == ToString(tenths * 10) \o ".0"

\* parts.join(', ')
RECURSIVE join(_)
join(parts) ==
    IF Len(parts) = 0 THEN ""
    ELSE IF Len(parts) = 1 THEN parts[1]
    ELSE parts[1] \o ", " \o join(Tail(parts))

\* the findings buildReasoning pushes, in order
ReasoningParts(analysis) ==
    (IF analysis.toxicity.t # "undefined"
     THEN <<"Toxicity: " \o toFixed1(analysis.toxicity.n) \o "%">> ELSE <<>>)
    \o (IF Truthy(analysis.nsfw_text) THEN <<"NSFW text detected">> ELSE <<>>)
    \o (IF Truthy(analysis.nsfw_image) THEN <<"NSFW image detected">> ELSE <<>>)
    \o (IF Truthy(analysis.violence) THEN <<"Violence detected">> ELSE <<>>)

ReasoningPrefix(status) ==
    IF status = JStr("approved") THEN "Content approved:"
    ELSE IF status = JStr("flagged") THEN "Content flagged for review:"
    ELSE "Content rejected:"

buildReasoningAlwaysJoining(status, analysis) ==
    ReasoningPrefix(status) \o " " \o join(ReasoningParts(analysis))

\* buildReasoning: the prefix of the status, then the findings joined
buildReasoning(status, analysis) ==
    LET parts == ReasoningParts(analysis)
        prefix == ReasoningPrefix(status)
    IN  IF Len(parts) > 0 THEN prefix \o " " \o join(parts) ELSE prefix

\* finalState.technicalAnalysis ?? {toxicity: 0, nsfw_text: false, ...}
FinalTechnicalAnalysis(finalState) ==
    IF finalState.technicalAnalysis.present THEN finalState.technicalAnalysis
    ELSE [present |-> TRUE, toxicity |-> JNum(0), nsfw_text |-> JBool(FALSE),
          nsfw_image |-> JBool(FALSE), violence |-> JBool(FALSE),
          image_replaced_by_ai |-> JUndef]

\* finalState.decision ?? 'approved'
FinalStatus(finalState) == Coalesce(finalState.decision, JStr("approved"))

\* what runModeration returns for the final state of the workflow
ModerationResult(finalState) ==
    LET status == FinalStatus(finalState)
        technicalAnalysis == FinalTechnicalAnalysis(finalState)
    IN  [returned |-> TRUE,
         status |-> status,
         summary |-> Coalesce(finalState.textAnalysis.summary,
                              JStr("No summary provided")),
         reasoning |-> buildReasoning(status, technicalAnalysis),
         technicalAnalysis |-> technicalAnalysis]

NoResult ==
    [returned |-> FALSE, status |-> JUndef, summary |-> JUndef, reasoning |-> "",
     technicalAnalysis |-> NoTechnicalAnalysis]

\* a lookup whose answer is not tested
RowNeverMissing(found) == FALSE

\* if (!row) throw new Error('submission not found')
RowMissing(found) == ~found

\* the payload runModeration builds from the row
Payload(r) ==
    [type |-> r.type,
     content |-> Coalesce(r.content, JStr("")),
     imageUrl |-> IF Truthy(r.image_url) THEN r.image_url ELSE JUndef]

-----------------------------------------------------------------------------
(* The submission store *)

NoRow ==
    [exists |-> FALSE, type |-> JUndef, content |-> JNull, image_url |-> JNull,
     status |-> JNull, moderation_stage |-> JNull, summary |-> JNull,
     reasoning |-> JNull, toxicity |-> JNull, nsfw_text |-> JNull,
     nsfw_image |-> JNull, violence |-> JNull, image_replaced_by_ai |-> JNull]

\* the row the synchronous submit inserts
InsertedRow(req, imageUrl) ==
    [NoRow EXCEPT !.exists = TRUE, !.type = req.type,
                  !.content = Coalesce(req.content, JNull),
                  !.image_url = imageUrl]

\* the update the synchronous submit makes with the moderation result
UpdatedRow(r, res) ==
    [r EXCEPT !.status = res.status,
              !.summary = res.summary,
              !.reasoning = JStr(res.reasoning),
              !.toxicity = Coalesce(res.technicalAnalysis.toxicity, JNull),
              !.nsfw_text = Coalesce(res.technicalAnalysis.nsfw_text, JNull),
              !.nsfw_image = Coalesce(res.technicalAnalysis.nsfw_image, JNull),
              !.violence = Coalesce(res.technicalAnalysis.violence, JNull)]

Requests ==
    [type : {JStr("text"), JStr("image")},
     content : {JUndef, JStr(""), JStr("hello world")},
     file : BOOLEAN,
     user : BOOLEAN]

\* no run side by side
NoRuns == <<>>

NoCalls == [c \in {"download", "vision", "reasoning", "generation"} |-> 0]

Called(used) == [c \in DOMAIN calls |-> IF c \in used THEN calls[c] + 1 ELSE calls[c]]

-----------------------------------------------------------------------------
(* Initial states *)

OriginalImage == JStr("orig.jpg")

\* the submitter has no answer yet
NoResponse ==
    [kind |-> "none", status |-> JUndef, moderation_stage |-> JUndef,
     imageUrl |-> JUndef, message |-> ""]

\* what the fire-and-forget submit returns once the row is inserted
AcceptedResponse(req) ==
    [kind |-> "returned", status |-> JStr("pending"),
     moderation_stage |-> JStr("queued"),
     imageUrl |-> IF req.file THEN OriginalImage ELSE JNull,
     message |-> "Submission received. Processing..."]

\* the exception submit raises is the answer to the submitter
ErrorResponse(msg) ==
    [kind |-> "threw", status |-> JUndef, moderation_stage |-> JUndef,
     imageUrl |-> JUndef, message |-> msg]

Init ==
    /\ request \in Requests
    /\ pc = "submit"
    /\ row = NoRow
    /\ fetched = "not yet"
    /\ state = NoState
    /\ result = NoResult
    /\ uploadedImageUrl = JUndef
    /\ error = ""
    /\ origImageUrl = JUndef
    /\ baseDecision = JUndef
    /\ evalInput = NoState
    /\ imageOutcome = "none"
    /\ textOutcome = "none"
    /\ decisionOutcome = "none"
    /\ genOutcome = "none"
    /\ reanOutcome = "none"
    /\ calls = NoCalls
    /\ promptText = <<>>
    /\ sentPrompt = NoPrompt
    /\ runs = NoRuns
    /\ response = NoResponse

-----------------------------------------------------------------------------
(* Actions *)

\* an exception leaves the run: nothing catches it on the way to the caller
Raise(msg) == pc' = "threw" /\ error' = msg

\* SubmissionsController.submit up to the call of runModeration
Submit ==
    /\ pc = "submit"
    /\ \E uploaded \in BOOLEAN, inserted \in BOOLEAN :
         IF ~request.user
         THEN Raise("User must be authenticated to submit") /\ UNCHANGED row
         ELSE IF request.file /\ ~uploaded
         THEN Raise("Image upload failed") /\ UNCHANGED row
         ELSE IF ~inserted
         THEN Raise("Cannot read properties of null") /\ UNCHANGED row
         ELSE /\ row' = InsertedRow(request,
                                    IF request.file THEN OriginalImage ELSE JNull)
              /\ pc' = "run_moderation"
              /\ UNCHANGED error
    /\ UNCHANGED <<uploadedImageUrl, request, fetched, state, result,
                   origImageUrl, baseDecision, evalInput, imageOutcome,
                   textOutcome, decisionOutcome, genOutcome, reanOutcome,
                   calls, promptText, sentPrompt, runs, response>>

\* runModeration up to moderationAgent.invoke(payload)
RunModeration ==
    /\ pc = "run_moderation"
    /\ \E found \in (IF row.exists THEN BOOLEAN ELSE {FALSE}) :
         /\ fetched' = IF found THEN "row" ELSE "nothing"
         /\ IF RowMissing(found)
            THEN Raise("submission not found") /\ UNCHANGED <<state, origImageUrl>>
            ELSE /\ state' = ModerationState(Payload(row))
                 /\ origImageUrl' = Payload(row).imageUrl
                 /\ pc' = "analyze_image"
                 /\ UNCHANGED error
    /\ UNCHANGED <<uploadedImageUrl, request, row, result, baseDecision,
                   evalInput, imageOutcome, textOutcome, decisionOutcome,
                   genOutcome, reanOutcome, calls, promptText, sentPrompt,
                   runs, response>>

\* the answers a capability can give to a node; a node that returns early
\* calls nothing, so there is a single way for it to run
Answers(skipped, answers) ==
    IF skipped THEN {CHOOSE a \in answers : TRUE} ELSE answers

StepHanging(r, next) ==
    /\ calls' = Called(r.used)
    /\ IF r.threw
       THEN pc' = "hung" /\ UNCHANGED <<state, error>>
       ELSE state' = r.st /\ pc' = next /\ UNCHANGED error

\* a node ran: its state goes to the next node, or its exception leaves the run
Step(r, next) ==
    /\ calls' = Called(r.used)
    /\ IF r.threw
       THEN Raise(r.message) /\ UNCHANGED state
       ELSE state' = r.st /\ pc' = next /\ UNCHANGED error

AnalyzeImageSkippingText ==
    /\ pc = "analyze_image"
    /\ \E look \in Answers(ImageAnalysisSkipped(state), FirstLooks) :
         /\ Step(analyzeImageNode(state, look), "make_decision")
         /\ imageOutcome' =
              IF ImageAnalysisSkipped(state) THEN "skipped"
              ELSE IF ~look.downloaded THEN "download_failed"
              ELSE IF look.threw THEN "vision_threw"
              ELSE "described"
    /\ UNCHANGED <<uploadedImageUrl, request, row, fetched, result,
                   origImageUrl, baseDecision, evalInput, textOutcome,
                   decisionOutcome, genOutcome, reanOutcome, promptText,
                   sentPrompt, runs, response>>

\* the analyze_image node and its edge to analyze_text
AnalyzeImage ==
    /\ pc = "analyze_image"
    /\ \E look \in Answers(ImageAnalysisSkipped(state), FirstLooks) :
         /\ Step(analyzeImageNode(state, look), "analyze_text")
         /\ imageOutcome' =
              IF ImageAnalysisSkipped(state) THEN "skipped"
              ELSE IF ~look.downloaded THEN "download_failed"
              ELSE IF look.threw THEN "vision_threw"
              ELSE "described"
    /\ UNCHANGED <<uploadedImageUrl, request, row, fetched, result,
                   origImageUrl, baseDecision, evalInput, textOutcome,
                   decisionOutcome, genOutcome, reanOutcome, promptText,
                   sentPrompt, runs, response>>

AnalyzeText ==
    /\ pc = "analyze_text"
    /\ \E resp \in Answers(TextAnalysisSkipped(state), TextResponses) :
         LET r == analyzeTextNode(state, resp)
         IN  /\ Step(r, "make_decision")
             /\ textOutcome' =
                  IF r.used = {} THEN "skipped"
                  ELSE IF resp.threw THEN "threw"
                  ELSE IF r.threw THEN "null"
                  ELSE IF JsonParse(JsonStr(resp.raw)) = "error" THEN "unparseable"
                  ELSE "parsed"
    /\ UNCHANGED <<uploadedImageUrl, request, row, fetched, result,
                   origImageUrl, baseDecision, evalInput, imageOutcome,
                   decisionOutcome, genOutcome, reanOutcome, promptText,
                   sentPrompt, runs, response>>

MakeDecision ==
    /\ pc = "make_decision"
    /\ \E resp \in DecisionResponses :
         LET r == makeDecisionNode(state, resp)
         IN  /\ Step(r, "evaluate_image_replacement")
             /\ baseDecision' = IF r.threw THEN baseDecision ELSE r.st.decision
             /\ decisionOutcome' =
                  IF resp.threw THEN "threw"
                  ELSE IF r.threw THEN "null"
                  ELSE IF JsonParse(JsonStr(resp.raw)) = "error" THEN "unparseable"
                  ELSE "parsed"
    /\ UNCHANGED <<uploadedImageUrl, request, row, fetched, result,
                   origImageUrl, evalInput, imageOutcome, textOutcome,
                   genOutcome, reanOutcome, promptText, sentPrompt, runs, response>>

EvaluateImageReplacement ==
    /\ pc = "evaluate_image_replacement"
    /\ Step(evaluateImageReplacementNode(state), "generate_image")
    /\ evalInput' = state
    /\ UNCHANGED <<uploadedImageUrl, request, row, fetched, result,
                   origImageUrl, baseDecision, imageOutcome, textOutcome,
                   decisionOutcome, genOutcome, reanOutcome, promptText,
                   sentPrompt, runs, response>>

GenerateImage ==
    /\ pc = "generate_image"
    /\ \E gen \in Answers(GenerationSkipped(state), GenerationOutcomes) :
         LET r == generateImageNode(state, gen)
         IN  /\ Step(r, "reanalyze_generated_image")
             /\ genOutcome' =
                  IF r.used = {} THEN "skipped"
                  ELSE IF gen.threw THEN "threw"
                  ELSE IF Truthy(gen.url) THEN "url" ELSE "nourl"
    /\ UNCHANGED <<uploadedImageUrl, request, row, fetched, result,
                   origImageUrl, baseDecision, evalInput, imageOutcome,
                   textOutcome, decisionOutcome, reanOutcome, promptText,
                   sentPrompt, runs, response>>

ReanalyzeGeneratedImage ==
    /\ pc = "reanalyze_generated_image"
    /\ \E look \in Answers(ReanalysisSkipped(state), SecondLooks) :
         LET r == reanalyzeGeneratedImageNode(state, look)
         IN  /\ Step(r, "finish")
             /\ reanOutcome' =
                  IF r.used = {} THEN "skipped"
                  ELSE IF ~look.downloaded THEN "download_failed"
                  ELSE IF look.threw THEN "vision_threw"
                  ELSE IF \E m \in {"nsfw", "violence", "harmful"} :
                            includes(toLowerCase(look.text), m)
                  THEN "marker" ELSE "clean"
    /\ UNCHANGED <<uploadedImageUrl, request, row, fetched, result,
                   origImageUrl, baseDecision, evalInput, imageOutcome,
                   textOutcome, decisionOutcome, genOutcome, promptText,
                   sentPrompt, runs, response>>

\* runModeration from the return of moderationAgent.invoke to its own return
Finish ==
    /\ pc = "finish"
    /\ result' = ModerationResult(state)
    /\ pc' = "update"
    /\ UNCHANGED <<uploadedImageUrl, request, row, fetched, state, error,
                   origImageUrl, baseDecision, evalInput, imageOutcome,
                   textOutcome, decisionOutcome, genOutcome, reanOutcome,
                   calls, promptText, sentPrompt, runs, response>>

\* SubmissionsController.submit after runModeration returned; the store's
\* answer to the update is not looked at
UpdateSubmission ==
    /\ pc = "update"
    /\ \E written \in BOOLEAN :
         row' = IF written THEN UpdatedRow(row, result) ELSE row
    /\ pc' = "done"
    /\ UNCHANGED <<uploadedImageUrl, request, fetched, state, result, error,
                   origImageUrl, baseDecision, evalInput, imageOutcome,
                   textOutcome, decisionOutcome, genOutcome, reanOutcome,
                   calls, promptText, sentPrompt, runs, response>>

Next ==
    \/ Submit
    \/ RunModeration
    \/ AnalyzeImage
    \/ AnalyzeText
    \/ MakeDecision
    \/ EvaluateImageReplacement
    \/ GenerateImage
    \/ ReanalyzeGeneratedImage
    \/ Finish
    \/ UpdateSubmission

Spec == Init /\ [][Next]_vars

-----------------------------------------------------------------------------
(* evaluateImageReplacementNode on any record of the schema *)

SchemaStates ==
    [type : {JStr("image")},
     content : {JStr(""), JStr("hello world")},
     imageUrl : {JUndef, OriginalImage},
     imageDescription : {JUndef, JStr("cat")},
     decision : {JStr("approved"), JStr("flagged"), JStr("rejected")},
     shouldReplaceImage : BOOLEAN,
     generatedImageUrl : {JUndef, JStr("gen.png")},
     technicalAnalysis :
         {NoTechnicalAnalysis}
         \cup [present : {TRUE},
               toxicity : {JUndef} \cup {JNum(n) : n \in Toxicities},
               nsfw_text : {JUndef, JBool(FALSE)},
               nsfw_image : {JUndef, JBool(TRUE), JBool(FALSE)},
               violence : {JUndef, JBool(TRUE), JBool(FALSE)},
               image_replaced_by_ai : {JUndef}],
     textAnalysis : {NoTextAnalysis}]

EvaluationInit ==
    /\ pc = "evaluate_image_replacement"
    /\ state \in SchemaStates
    /\ request \in {r \in Requests : r.user /\ r.file /\ r.content = JStr("")}
    /\ row = NoRow
    /\ fetched = "not yet"
    /\ result = NoResult
    /\ uploadedImageUrl = JUndef
    /\ error = ""
    /\ origImageUrl = state.imageUrl
    /\ baseDecision = state.decision
    /\ evalInput = NoState
    /\ imageOutcome = "none"
    /\ textOutcome = "none"
    /\ decisionOutcome = "none"
    /\ genOutcome = "none"
    /\ reanOutcome = "none"
    /\ calls = NoCalls
    /\ promptText = <<>>
    /\ sentPrompt = NoPrompt
    /\ runs = NoRuns
    /\ response = NoResponse

EvaluationNext == EvaluateImageReplacement

EvaluationSpec == EvaluationInit /\ [][EvaluationNext]_vars

-----------------------------------------------------------------------------
(* The status and reasoning of any final record *)

\* what moderationAgent.invoke may hand to runModeration (finalState as any)
FinalStates ==
    [type : {JStr("image")},
     content : {JStr("hello world")},
     imageUrl : {OriginalImage},
     imageDescription : {JStr("cat")},
     decision : {JUndef, JStr("approved"), JStr("flagged"), JStr("rejected")},
     shouldReplaceImage : {FALSE},
     generatedImageUrl : {JUndef},
     technicalAnalysis :
         {NoTechnicalAnalysis}
         \cup [present : {TRUE},
               toxicity : {JUndef} \cup {JNum(n) : n \in Toxicities},
               nsfw_text : {JUndef, JBool(TRUE), JBool(FALSE)},
               nsfw_image : {JUndef, JBool(TRUE), JBool(FALSE)},
               violence : {JUndef, JBool(TRUE), JBool(FALSE)},
               image_replaced_by_ai : {JUndef, JBool(TRUE), JBool(FALSE)}],
     textAnalysis : {NoTextAnalysis}]

ReasoningInit ==
    /\ pc = "finish"
    /\ state \in FinalStates
    /\ request \in {r \in Requests : r.user /\ r.file /\ r.content = JStr("hello world")}
    /\ row = NoRow
    /\ fetched = "not yet"
    /\ result = NoResult
    /\ uploadedImageUrl = JUndef
    /\ error = ""
    /\ origImageUrl = state.imageUrl
    /\ baseDecision = state.decision
    /\ evalInput = NoState
    /\ imageOutcome = "none"
    /\ textOutcome = "none"
    /\ decisionOutcome = "none"
    /\ genOutcome = "none"
    /\ reanOutcome = "none"
    /\ calls = NoCalls
    /\ promptText = <<>>
    /\ sentPrompt = NoPrompt
    /\ runs = NoRuns
    /\ response = NoResponse

ReasoningNext == Finish

ReasoningSpec == ReasoningInit /\ [][ReasoningNext]_vars

-----------------------------------------------------------------------------
(* The prompt generateImageNode posts, for any content *)

SanitizeInit ==
    /\ pc = "generate_image"
    /\ promptText \in Texts
    /\ sentPrompt = NoPrompt
    /\ request \in {r \in Requests : r.user /\ r.file /\ r.content = JStr("hello world")}
    /\ row = NoRow
    /\ fetched = "not yet"
    /\ state = NoState
    /\ result = NoResult
    /\ uploadedImageUrl = JUndef
    /\ error = ""
    /\ origImageUrl = JUndef
    /\ baseDecision = JUndef
    /\ evalInput = NoState
    /\ imageOutcome = "none"
    /\ textOutcome = "none"
    /\ decisionOutcome = "none"
    /\ genOutcome = "none"
    /\ reanOutcome = "none"
    /\ calls = NoCalls
    /\ runs = NoRuns
    /\ response = NoResponse

\* generateImageNode up to the post to the images endpoint: the prompt is
\* the sanitized content
PostGenerationRequest ==
    /\ pc = "generate_image"
    /\ sentPrompt' = sanitizePromptForImageGeneration(promptText)
    /\ calls' = Called({"generation"})
    /\ pc' = "generation_requested"
    /\ UNCHANGED <<request, row, fetched, state, result, uploadedImageUrl,
                   error, origImageUrl, baseDecision, evalInput, imageOutcome,
                   textOutcome, decisionOutcome, genOutcome, reanOutcome,
                   promptText, runs, response>>

SanitizeNext == PostGenerationRequest

SanitizeSpec == SanitizeInit /\ [][SanitizeNext]_vars

-----------------------------------------------------------------------------
(* Two runs side by side.                                                  *)
(*                                                                         *)
(* Each call of runModeration has its own payload and its own state inside *)
(* moderationAgent.invoke; the runs take turns at their awaits.            *)

RunIds == {"s1", "s2"}

\* the rows of the two submissions
SideBySidePayloads ==
    {[type |-> JStr("image"), content |-> JStr("hello world"),
      imageUrl |-> OriginalImage],
     [type |-> JStr("text"), content |-> JStr("hello world"),
      imageUrl |-> JUndef]}

\* what the capabilities answer to a node in these runs
SideBySideAnswers(node) ==
    CASE node = "analyze_image" ->
           {[downloaded |-> TRUE, threw |-> TRUE, text |-> <<>>],
            [downloaded |-> TRUE, threw |-> FALSE, text |-> <<"cat">>]}
      [] node = "analyze_text" ->
           {[threw |-> TRUE, raw |-> <<>>, obj |-> EmptyTextObject],
            [threw |-> FALSE, raw |-> <<"prose">>, obj |-> EmptyTextObject],
            [threw |-> FALSE, raw |-> <<"object">>,
             obj |-> [toxicity |-> JNum(2), nsfw_text |-> JBool(FALSE),
                      summary |-> JStr("ok")]]}
      [] node = "make_decision" ->
           {[threw |-> FALSE, raw |-> <<"prose">>, obj |-> EmptyDecisionObject],
            [threw |-> FALSE, raw |-> <<"object">>,
             obj |-> [decision |-> JStr("rejected"), summary |-> JUndef,
                      technicalAnalysis |->
                          [given |-> TRUE, nsfw_image |-> JBool(TRUE),
                           violence |-> JUndef]]]}
      [] node = "evaluate_image_replacement" -> {[none |-> TRUE]}
      [] node = "generate_image" ->
           {[threw |-> TRUE, url |-> JUndef],
            [threw |-> FALSE, url |-> JStr("gen.png")]}
      [] node = "reanalyze_generated_image" ->
           {[downloaded |-> TRUE, threw |-> FALSE, text |-> <<"cat">>],
            [downloaded |-> TRUE, threw |-> FALSE, text |-> <<"NSFW">>]}

\* the node of this name applied to a state and the answer it gets
ApplyNode(node, st, answer) ==
    CASE node = "analyze_image" -> analyzeImageNode(st, answer)
      [] node = "analyze_text" -> analyzeTextNode(st, answer)
      [] node = "make_decision" -> makeDecisionNode(st, answer)
      [] node = "evaluate_image_replacement" -> evaluateImageReplacementNode(st)
      [] node = "generate_image" -> generateImageNode(st, answer)
      [] node = "reanalyze_generated_image" ->
           reanalyzeGeneratedImageNode(st, answer)

\* the node after this one along the edges
NextNode(node) ==
    CASE node = "analyze_image" -> "analyze_text"
      [] node = "analyze_text" -> "make_decision"
      [] node = "make_decision" -> "evaluate_image_replacement"
      [] node = "evaluate_image_replacement" -> "generate_image"
      [] node = "generate_image" -> "reanalyze_generated_image"
      [] node = "reanalyze_generated_image" -> "finish"

WorkflowNodes == {"analyze_image", "analyze_text", "make_decision",
                  "evaluate_image_replacement", "generate_image",
                  "reanalyze_generated_image"}

\* a state kept in one place for all runs
StoreShared(rs, r, run) ==
    [q \in DOMAIN rs |-> IF q = r THEN run ELSE [rs[q] EXCEPT !.st = run.st]]

\* the state a run holds is its own: a step of run r replaces r's record
Store(rs, r, run) == [rs EXCEPT ![r] = run]

SideBySideInit ==
    /\ pc = "side_by_side"
    /\ runs \in [RunIds -> {[pc |-> "run_moderation", payload |-> p,
                             st |-> NoState, answers |-> <<>>,
                             result |-> NoResult] : p \in SideBySidePayloads}]
    /\ request \in {r \in Requests : r.user /\ r.file /\ r.content = JStr("hello world")
                                      /\ r.type = JStr("image")}
    /\ row = NoRow
    /\ fetched = "not yet"
    /\ state = NoState
    /\ result = NoResult
    /\ uploadedImageUrl = JUndef
    /\ error = ""
    /\ origImageUrl = JUndef
    /\ baseDecision = JUndef
    /\ evalInput = NoState
    /\ imageOutcome = "none"
    /\ textOutcome = "none"
    /\ decisionOutcome = "none"
    /\ genOutcome = "none"
    /\ reanOutcome = "none"
    /\ calls = NoCalls
    /\ promptText = <<>>
    /\ sentPrompt = NoPrompt
    /\ response = NoResponse

\* runModeration of run r up to moderationAgent.invoke
StartRun(r) ==
    /\ runs[r].pc = "run_moderation"
    /\ runs' = Store(runs, r, [runs[r] EXCEPT
                                  !.pc = "analyze_image",
                                  !.st = ModerationState(runs[r].payload)])
    /\ UNCHANGED <<pc, request, row, fetched, state, result, uploadedImageUrl,
                   error, origImageUrl, baseDecision, evalInput, imageOutcome,
                   textOutcome, decisionOutcome, genOutcome, reanOutcome,
                   calls, promptText, sentPrompt,
                   response>>

\* the node run r is at, from its await to its return
RunNode(r) ==
    /\ runs[r].pc \in WorkflowNodes
    /\ \E answer \in SideBySideAnswers(runs[r].pc) :
         LET run == runs[r]
             res == ApplyNode(run.pc, run.st, answer)
         IN  runs' = Store(runs, r,
                       [run EXCEPT
                          !.pc = IF res.threw THEN "threw" ELSE NextNode(run.pc),
                          !.st = IF res.threw THEN run.st ELSE res.st,
                          !.answers = Append(run.answers, answer)])
    /\ UNCHANGED <<pc, request, row, fetched, state, result, uploadedImageUrl,
                   error, origImageUrl, baseDecision, evalInput, imageOutcome,
                   textOutcome, decisionOutcome, genOutcome, reanOutcome,
                   calls, promptText, sentPrompt,
                   response>>

\* runModeration of run r after moderationAgent.invoke
FinishRun(r) ==
    /\ runs[r].pc = "finish"
    /\ runs' = Store(runs, r, [runs[r] EXCEPT
                                  !.pc = "done",
                                  !.result = ModerationResult(runs[r].st)])
    /\ UNCHANGED <<pc, request, row, fetched, state, result, uploadedImageUrl,
                   error, origImageUrl, baseDecision, evalInput, imageOutcome,
                   textOutcome, decisionOutcome, genOutcome, reanOutcome,
                   calls, promptText, sentPrompt,
                   response>>

SideBySideNext ==
    \E r \in RunIds :
        \/ StartRun(r)
        \/ RunNode(r)
        \/ FinishRun(r)

SideBySideSpec == SideBySideInit /\ [][SideBySideNext]_vars

-----------------------------------------------------------------------------
(* The fire-and-forget submit and the run it starts.                       *)
(*                                                                         *)
(* submit inserts the row as pending/queued and starts runModerationAsync  *)
(* without waiting for it.  The run writes a stage to the row before the   *)
(* work of that stage: analyzing (load the submission), running_moderation *)
(* (the workflow), uploading_generated_image (store the generated image),  *)
(* finalizing (persist the result), completed; an exception raised after   *)
(* the submission was found marks the row error/flagged.                   *)

QueuedRowFinalizing(req, imageUrl) ==
    [InsertedRow(req, imageUrl) EXCEPT !.status = JStr("pending"),
                                       !.moderation_stage = JStr("finalizing")]

\* the row the fire-and-forget submit inserts
QueuedRow(req, imageUrl) ==
    [InsertedRow(req, imageUrl) EXCEPT !.status = JStr("pending"),
                                       !.moderation_stage = JStr("queued")]

\* update(id, {moderation_stage}): a partial update of the row of this id
StageWritten(r, stage) ==
    IF r.exists THEN [r EXCEPT !.moderation_stage = JStr(stage)] ELSE r

\* fetchById: the record when the store holds one for the id
RowFound(r) == r.exists

\* the final status: the decision step's verdict, recomputed from the
\* thresholds once the image was replaced
PolicyStatus(finalState) ==
    LET ta == FinalTechnicalAnalysis(finalState)
        issue == Truthy(ta.nsfw_text) \/ Truthy(ta.nsfw_image) \/ Truthy(ta.violence)
    IN  IF ~Truthy(ta.image_replaced_by_ai) THEN FinalStatus(finalState)
        ELSE IF ta.toxicity.n < 3 /\ ~issue THEN JStr("approved")
        ELSE IF ta.toxicity.n > 7 \/ (issue /\ ta.toxicity.n > 5) THEN JStr("rejected")
        ELSE JStr("flagged")

\* the terminal result of a run that went through
PolicyResult(finalState) ==
    [ModerationResult(finalState) EXCEPT
        !.status = PolicyStatus(finalState),
        !.reasoning = buildReasoning(PolicyStatus(finalState),
                                     FinalTechnicalAnalysis(finalState))]

\* the final write: the decision fields, the image to show and the last stage
CompletedRow(r, res, imageUrl) ==
    [UpdatedRow(r, res) EXCEPT
        !.image_url = imageUrl,
        !.image_replaced_by_ai =
            JBool(Truthy(res.technicalAnalysis.image_replaced_by_ai)),
        !.moderation_stage = JStr("completed")]

\* what the handler of an unexpected exception writes
FailedRow(r, msg) ==
    [r EXCEPT !.moderation_stage = JStr("error"),
              !.status = JStr("flagged"),
              !.reasoning = JStr(msg)]

\* a generated image came out of the workflow
ImageGenerated(st) == Truthy(st.generatedImageUrl)

AsyncInit ==
    /\ request \in Requests
    /\ \/ pc = "submit"
       \/ pc = "enter_analyzing" /\ request.user /\ ~request.file
    /\ row = NoRow
    /\ fetched = "not yet"
    /\ state = NoState
    /\ result = NoResult
    /\ uploadedImageUrl = JUndef
    /\ error = ""
    /\ origImageUrl = JUndef
    /\ baseDecision = JUndef
    /\ evalInput = NoState
    /\ imageOutcome = "none"
    /\ textOutcome = "none"
    /\ decisionOutcome = "none"
    /\ genOutcome = "none"
    /\ reanOutcome = "none"
    /\ calls = NoCalls
    /\ promptText = <<>>
    /\ sentPrompt = NoPrompt
    /\ runs = NoRuns
    /\ response = NoResponse

SubmitUnqueued ==
    /\ pc = "submit"
    /\ \E uploaded \in BOOLEAN, inserted \in BOOLEAN :
         IF ~request.user
         THEN Raise("User must be authenticated to submit") /\ UNCHANGED row
         ELSE IF request.file /\ ~uploaded
         THEN Raise("Image upload failed") /\ UNCHANGED row
         ELSE IF ~inserted
         THEN Raise("Failed to create submission") /\ UNCHANGED row
         ELSE /\ row' = InsertedRow(request,
                                    IF request.file THEN OriginalImage ELSE JNull)
              /\ pc' = "enter_analyzing"
              /\ UNCHANGED error
    /\ UNCHANGED <<uploadedImageUrl, request, fetched, state, result,
                   origImageUrl, baseDecision, evalInput, imageOutcome,
                   textOutcome, decisionOutcome, genOutcome, reanOutcome,
                   calls, promptText, sentPrompt, runs, response>>

\* SubmissionsController.submit, fire-and-forget: the row is inserted and
\* runModerationAsync started
SubmitQueued ==
    /\ pc = "submit"
    /\ \E uploaded \in BOOLEAN, inserted \in BOOLEAN :
         IF ~request.user
         THEN Raise("User must be authenticated to submit") /\ UNCHANGED row
         ELSE IF request.file /\ ~uploaded
         THEN Raise("Image upload failed") /\ UNCHANGED row
         ELSE IF ~inserted
         THEN Raise("Failed to create submission") /\ UNCHANGED row
         ELSE /\ row' = QueuedRow(request,
                                  IF request.file THEN OriginalImage ELSE JNull)
              /\ pc' = "enter_analyzing"
              /\ UNCHANGED error
    /\ UNCHANGED <<uploadedImageUrl, request, fetched, state, result,
                   origImageUrl, baseDecision, evalInput, imageOutcome,
                   textOutcome, decisionOutcome, genOutcome, reanOutcome,
                   calls, promptText, sentPrompt, runs, response>>

\* a stage is written to the row before its work begins
EnterStage(stage, next) ==
    /\ row' = StageWritten(row, stage)
    /\ pc' = next
    /\ UNCHANGED <<uploadedImageUrl, request, fetched, state, result, error,
                   origImageUrl, baseDecision, evalInput, imageOutcome,
                   textOutcome, decisionOutcome, genOutcome, reanOutcome,
                   calls, promptText, sentPrompt, runs, response>>

EnterAnalyzing ==
    /\ pc = "enter_analyzing"
    /\ EnterStage("analyzing", "fetch")

\* the submission is loaded and the moderation record built from it
FetchSubmission ==
    /\ pc = "fetch"
    /\ fetched' = IF RowFound(row) THEN "row" ELSE "nothing"
    /\ IF RowMissing(RowFound(row))
       THEN Raise("submission not found") /\ UNCHANGED <<state, origImageUrl>>
       ELSE /\ state' = ModerationState(Payload(row))
            /\ origImageUrl' = Payload(row).imageUrl
            /\ pc' = "enter_running_moderation"
            /\ UNCHANGED error
    /\ UNCHANGED <<uploadedImageUrl, request, row, result, baseDecision,
                   evalInput, imageOutcome, textOutcome, decisionOutcome,
                   genOutcome, reanOutcome, calls, promptText, sentPrompt,
                   runs, response>>

EnterRunningModeration ==
    /\ pc = "enter_running_moderation"
    /\ EnterStage("running_moderation", "analyze_image")

\* the workflow returned: a generated image is stored first, otherwise the
\* result is persisted right away
LeaveWorkflow ==
    /\ pc = "finish"
    /\ pc' = IF ImageGenerated(state) THEN "enter_uploading" ELSE "enter_finalizing"
    /\ UNCHANGED <<uploadedImageUrl, request, row, fetched, state, result,
                   error, origImageUrl, baseDecision, evalInput, imageOutcome,
                   textOutcome, decisionOutcome, genOutcome, reanOutcome,
                   calls, promptText, sentPrompt, runs, response>>

EnterUploading ==
    /\ pc = "enter_uploading"
    /\ EnterStage("uploading_generated_image", "upload")

\* the generated image goes to the blob store; when that fails the original
\* image URL is kept
UploadGeneratedImage ==
    /\ pc = "upload"
    /\ \E stored \in BOOLEAN :
         uploadedImageUrl' = IF stored THEN JStr("stored.png") ELSE JUndef
    /\ pc' = "enter_finalizing"
    /\ UNCHANGED <<request, row, fetched, state, result, error, origImageUrl,
                   baseDecision, evalInput, imageOutcome, textOutcome,
                   decisionOutcome, genOutcome, reanOutcome, calls,
                   promptText, sentPrompt, runs, response>>

EnterFinalizing ==
    /\ pc = "enter_finalizing"
    /\ EnterStage("finalizing", "persist")

\* the result is computed and written with the last stage; a failing write
\* raises
PersistResult ==
    /\ pc = "persist"
    /\ result' = PolicyResult(state)
    /\ \E written \in BOOLEAN :
         IF written
         THEN /\ row' = CompletedRow(row, PolicyResult(state),
                                     Coalesce(uploadedImageUrl, row.image_url))
              /\ pc' = "completed"
              /\ UNCHANGED error
         ELSE Raise("update failed") /\ UNCHANGED row
    /\ UNCHANGED <<uploadedImageUrl, request, fetched, state, origImageUrl,
                   baseDecision, evalInput, imageOutcome, textOutcome,
                   decisionOutcome, genOutcome, reanOutcome, calls,
                   promptText, sentPrompt, runs, response>>

\* an exception raised after the submission was found: the row is marked
\* and the exception raised again, to the catch of submit
HandleFailure ==
    /\ pc = "threw"
    /\ fetched = "row"
    /\ row' = FailedRow(row, error)
    /\ pc' = "rejected"
    /\ UNCHANGED <<uploadedImageUrl, request, fetched, state, result, error,
                   origImageUrl, baseDecision, evalInput, imageOutcome,
                   textOutcome, decisionOutcome, genOutcome, reanOutcome,
                   calls, promptText, sentPrompt, runs, response>>

AsyncNext ==
    \/ SubmitQueued
    \/ EnterAnalyzing
    \/ FetchSubmission
    \/ EnterRunningModeration
    \/ AnalyzeImage
    \/ AnalyzeText
    \/ MakeDecision
    \/ EvaluateImageReplacement
    \/ GenerateImage
    \/ ReanalyzeGeneratedImage
    \/ LeaveWorkflow
    \/ EnterUploading
    \/ UploadGeneratedImage
    \/ EnterFinalizing
    \/ PersistResult
    \/ HandleFailure

AsyncSpec == AsyncInit /\ [][AsyncNext]_vars

-----------------------------------------------------------------------------
(* The fire-and-forget submit answering the submitter while the run it     *)
(* started goes on: runModerationAsync is called without await, its        *)
(* promise gets a catch handler and submit returns.                        *)

FireAndForgetInit == AsyncInit /\ pc = "submit"

\* an answer that waits for the run and reports what it wrote
RespondAwaiting ==
    /\ response = NoResponse
    /\ pc \in {"threw", "completed", "rejected", "caught"}
    /\ response' = IF ~row.exists \/ pc \in {"rejected", "caught"}
                   THEN ErrorResponse(error)
                   ELSE [AcceptedResponse(request) EXCEPT
                            !.status = row.status,
                            !.moderation_stage = row.moderation_stage]
    /\ UNCHANGED <<pc, request, row, fetched, state, result,
                   uploadedImageUrl, error, origImageUrl, baseDecision,
                   evalInput, imageOutcome, textOutcome, decisionOutcome,
                   genOutcome, reanOutcome, calls, promptText, sentPrompt,
                   runs>>

\* submit returns: its exception when the row was not inserted, otherwise
\* the pending/queued answer, wherever the run is
Respond ==
    /\ response = NoResponse
    /\ pc # "submit"
    /\ response' = IF row.exists THEN AcceptedResponse(request)
                   ELSE ErrorResponse(error)
    /\ UNCHANGED <<pc, request, row, fetched, state, result,
                   uploadedImageUrl, error, origImageUrl, baseDecision,
                   evalInput, imageOutcome, textOutcome, decisionOutcome,
                   genOutcome, reanOutcome, calls, promptText, sentPrompt,
                   runs>>

\* the catch handler on the promise of runModerationAsync logs the failure
CatchFailure ==
    /\ pc = "rejected"
    /\ pc' = "caught"
    /\ UNCHANGED <<request, row, fetched, state, result, uploadedImageUrl,
                   error, origImageUrl, baseDecision, evalInput,
                   imageOutcome, textOutcome, decisionOutcome, genOutcome,
                   reanOutcome, calls, promptText, sentPrompt, runs,
                   response>>

FireAndForgetNext ==
    \/ AsyncNext
    \/ Respond
    \/ CatchFailure

FireAndForgetSpec == FireAndForgetInit /\ [][FireAndForgetNext]_vars

\* every step of a run returns or raises: a capability call that hangs is
\* timed out and counts as its failure
AsyncFairSpec == AsyncSpec /\ WF_vars(AsyncNext)

-----------------------------------------------------------------------------
(* Properties *)

AfterWorkflow == {"finish", "update", "done"}

Verdicts == {JStr("approved"), JStr("flagged"), JStr("rejected")}

imageReplacedByAi(st) == Truthy(st.technicalAnalysis.image_replaced_by_ai)

\* C1: whatever the capabilities answer, no exception leaves a workflow run
\* that was started, and the final record carries a decision.
C1_NoExceptionEscapes ==
    /\ (pc = "threw" => fetched # "row")
    /\ (pc \in AfterWorkflow => decisionOutcome \in {"parsed", "unparseable"})

\* the status the post-replacement override of the specification computes
OverrideStatus(ta) ==
    LET issue == Truthy(ta.nsfw_text) \/ Truthy(ta.nsfw_image) \/ Truthy(ta.violence)
    IN  IF ta.toxicity.n < 3 /\ ~issue THEN JStr("approved")
        ELSE IF ta.toxicity.n > 7 \/ (issue /\ ta.toxicity.n > 5) THEN JStr("rejected")
        ELSE JStr("flagged")

\* C2: when the image was replaced, the status runModeration returns is the
\* one the thresholds give, whatever the decision step said.
C2_StatusRecomputedAfterReplacement ==
    (result.returned /\ imageReplacedByAi(state))
        => result.status = OverrideStatus(state.technicalAnalysis)

\* C3: imageReplacedByAi is true only if generation answered with an image,
\* the look at that image succeeded and its text had no marker.
C3_ReplacedOnlyAfterCleanReanalysis ==
    imageReplacedByAi(state) => (genOutcome = "url" /\ reanOutcome = "clean")

C3_Witness ==
    pc = "done" /\ imageReplacedByAi(state) /\ reanOutcome = "clean"

\* C4: when generation was attempted and raised, the run ends with
\* shouldReplaceImage false, no generatedImageUrl, the original imageUrl and
\* the decision the decision step produced.
C4_GenerationFailureKeepsDecision ==
    (pc \in AfterWorkflow /\ genOutcome = "threw")
        => /\ ~state.shouldReplaceImage
           /\ state.generatedImageUrl = JUndef
           /\ state.imageUrl = origImageUrl
           /\ state.decision = baseDecision

C4_Witness ==
    /\ pc = "done" /\ genOutcome = "threw" /\ evalInput.imageUrl = OriginalImage
    /\ baseDecision = JStr("rejected") /\ state.decision = JStr("rejected")

\* C5: the toxicity the text-analysis step writes lies in [0,1].
C5_ToxicityInRange ==
    textOutcome \in {"parsed", "unparseable"}
        => /\ state.technicalAnalysis.toxicity.t = "number"
           /\ state.technicalAnalysis.toxicity.n \in 0..10

\* C6: for a record with an image, the replacement-evaluation step sets
\* shouldReplaceImage to (nsfwImage or violence) and toxicity < 0.7, a missing
\* toxicity counting as 0, whatever shouldReplaceImage was before.
C6_ReplacementRule ==
    (pc = "generate_image" /\ evalInput.imageUrl # JUndef)
        => LET ta == evalInput.technicalAnalysis
               toxicity == IF ta.toxicity.t = "number" THEN ta.toxicity.n ELSE 0
               issue == ta.nsfw_image = JBool(TRUE) \/ ta.violence = JBool(TRUE)
           IN  state.shouldReplaceImage = (issue /\ toxicity < 7)

C6_Witness ==
    /\ pc = "generate_image"
    /\ evalInput.imageUrl = OriginalImage
    /\ evalInput.shouldReplaceImage
    /\ evalInput.technicalAnalysis.nsfw_image = JBool(TRUE)
    /\ evalInput.technicalAnalysis.toxicity = JNum(7)
    /\ ~state.shouldReplaceImage

\* C7: without an imageUrl the image steps do nothing: imageDescription stays
\* absent, shouldReplaceImage false, generatedImageUrl absent, and neither
\* the vision nor the generation capability is called.
C7_NoImageNoImageWork ==
    (fetched = "row" /\ origImageUrl = JUndef)
        => /\ state.imageDescription = JUndef
           /\ ~state.shouldReplaceImage
           /\ state.generatedImageUrl = JUndef
           /\ calls["vision"] = 0
           /\ calls["generation"] = 0
           /\ calls["download"] = 0

C7_Witness ==
    /\ pc = "done" /\ fetched = "row" /\ origImageUrl = JUndef
    /\ state.content = JStr("hello world")
    /\ state.technicalAnalysis.nsfw_image = JBool(TRUE)
    /\ state.technicalAnalysis.toxicity = JNum(2)

\* C8: the decision stored by the decision step and the status runModeration
\* returns are one of approved, flagged, rejected.
C8_DecisionIsVerdict ==
    /\ state.decision \in Verdicts
    /\ (result.returned => result.status \in Verdicts)

\* C9: when the store returns no row, runModeration raises at once: no
\* workflow, no capability call, no record, no result.
C9_MissingRowRaises ==
    fetched = "nothing"
        => /\ pc = "threw"
           /\ error = "submission not found"
           /\ state = NoState
           /\ result = NoResult
           /\ calls = NoCalls

C9_Witness ==
    fetched = "nothing" /\ pc = "threw" /\ row.exists

\* C10: an exception raised after the submission was found leaves the row
\* with stage error, status flagged and the exception message as reasoning.
C10_FailureMarksRowFlagged ==
    (pc = "threw" /\ fetched = "row")
        => /\ row.moderation_stage = JStr("error")
           /\ row.status = JStr("flagged")
           /\ row.reasoning = JStr(error)

-----------------------------------------------------------------------------
(* The stages of a fire-and-forget run *)

Stage == row.moderation_stage
TerminalStages == {JStr("completed"), JStr("error")}

StageMoves ==
    {<<JStr("queued"), JStr("analyzing")>>,
     <<JStr("analyzing"), JStr("running_moderation")>>,
     <<JStr("running_moderation"), JStr("uploading_generated_image")>>,
     <<JStr("running_moderation"), JStr("finalizing")>>,
     <<JStr("uploading_generated_image"), JStr("finalizing")>>,
     <<JStr("finalizing"), JStr("completed")>>}

\* C12: the stored stage starts as queued and then only moves forward along
\* queued, analyzing, running_moderation, [uploading_generated_image],
\* finalizing, completed, or to error from a stage that is not terminal;
\* uploading_generated_image is entered only with a generated image
C12_StageOnlyAdvances ==
    [][/\ ~row.exists /\ row'.exists => row'.moderation_stage = JStr("queued")
       /\ row.exists =>
            /\ row'.exists
            /\ \/ row'.moderation_stage = Stage
               \/ <<Stage, row'.moderation_stage>> \in StageMoves
               \/ /\ Stage \notin TerminalStages
                  /\ row'.moderation_stage = JStr("error")
            /\ row'.moderation_stage # Stage
               /\ row'.moderation_stage = JStr("uploading_generated_image")
               => ImageGenerated(state)]_vars

\* a run that stored its generated image and completed
C12_Witness ==
    /\ Stage = JStr("completed")
    /\ genOutcome = "url"
    /\ uploadedImageUrl = JStr("stored.png")

WorkflowSteps ==
    {"analyze_image", "analyze_text", "make_decision",
     "evaluate_image_replacement", "generate_image",
     "reanalyze_generated_image", "finish"}

\* C13: the store holds the stage of the work in progress: each stage was
\* written before its work began, so what is read from the store at any
\* point of a run is the last stage the run entered
C13_StageWrittenBeforeWork ==
    row.exists =>
        /\ pc = "enter_analyzing" => Stage = JStr("queued")
        /\ pc = "fetch" => Stage = JStr("analyzing")
        /\ pc \in WorkflowSteps => Stage = JStr("running_moderation")
        /\ pc = "upload" => Stage = JStr("uploading_generated_image")
        /\ pc = "persist" => Stage = JStr("finalizing")
        /\ pc = "completed" => Stage = JStr("completed")
        /\ pc = "rejected" => Stage = JStr("error")

\* the generated image is being stored
C13_Witness ==
    /\ pc = "upload"
    /\ Stage = JStr("uploading_generated_image")
    /\ ImageGenerated(state)

-----------------------------------------------------------------------------
(* The steps of the workflow, one at a time *)

\* C14: an image submission with text whose decision step reported
\* nsfw_image true and violence false with toxicity 0.2, whose image was
\* generated and looked clean, ends replaced and approved, whichever verdict
\* the decision step gave
C14_ReplacementEndsApproved ==
    (/\ result.returned
     /\ Truthy(state.content)
     /\ Truthy(origImageUrl)
     /\ baseDecision \in Verdicts
     /\ evalInput.technicalAnalysis.nsfw_image = JBool(TRUE)
     /\ ~Truthy(evalInput.technicalAnalysis.violence)
     /\ ~Truthy(evalInput.technicalAnalysis.nsfw_text)
     /\ evalInput.technicalAnalysis.toxicity = JNum(2)
     /\ genOutcome = "url"
     /\ reanOutcome = "clean")
        => /\ imageReplacedByAi(state)
           /\ result.status = JStr("approved")

\* C15: a marker in the look at the generated image discards that image and
\* leaves nsfw_image, violence and decision alone; a look without marker
\* sets image_replaced_by_ai, clears nsfw_image and violence and keeps the
\* generated image
C15_ReanalysisVerdict ==
    [][pc = "reanalyze_generated_image" =>
         /\ reanOutcome' = "marker" =>
              /\ ~state'.shouldReplaceImage
              /\ state'.generatedImageUrl = JUndef
              /\ ~imageReplacedByAi(state')
              /\ state'.technicalAnalysis.nsfw_image
                   = state.technicalAnalysis.nsfw_image
              /\ state'.technicalAnalysis.violence
                   = state.technicalAnalysis.violence
              /\ state'.decision = state.decision
         /\ reanOutcome' = "clean" =>
              /\ imageReplacedByAi(state')
              /\ state'.technicalAnalysis.nsfw_image = JBool(FALSE)
              /\ state'.technicalAnalysis.violence = JBool(FALSE)
              /\ Truthy(state'.generatedImageUrl)
              /\ state'.generatedImageUrl = state.generatedImageUrl]_vars

\* the look at the generated image found a marker: the image is gone and the
\* flag of the decision step stands
C15_Witness ==
    /\ pc = "finish"
    /\ reanOutcome = "marker"
    /\ genOutcome = "url"
    /\ state.generatedImageUrl = JUndef
    /\ state.technicalAnalysis.nsfw_image = JBool(TRUE)

ImageAnalysisFailures == {"download_failed", "vision_threw"}

\* C16: a failed download or a failed vision call in analyze_image raises
\* nothing: the state gets the sentinel as imageDescription, nothing else
\* changes, and analyze_text is next
C16_ImageFailureGivesSentinel ==
    [][(pc = "analyze_image" /\ imageOutcome' \in ImageAnalysisFailures) =>
         /\ pc' = "analyze_text"
         /\ error' = error
         /\ state' = [state EXCEPT !.imageDescription =
                                       JStr("Image analysis failed")]]_vars

\* the vision capability threw and the text analysis is next
C16_Witness ==
    /\ pc = "analyze_text"
    /\ imageOutcome = "vision_threw"
    /\ state.imageDescription = JStr("Image analysis failed")

\* C17: a text-analysis response that is no JSON does not fail the step: it
\* writes toxicity 0.5, nsfw_text false and the summary of the parsing
\* error, and make_decision is next
C17_UnparseableTextGivesDefault ==
    [][(pc = "analyze_text" /\ textOutcome' = "unparseable") =>
         /\ pc' = "make_decision"
         /\ error' = error
         /\ state'.technicalAnalysis.toxicity = JNum(5)
         /\ state'.technicalAnalysis.nsfw_text = JBool(FALSE)
         /\ state'.textAnalysis.summary = JStr("Text analysis error")]_vars

C17_Witness ==
    /\ pc = "make_decision"
    /\ textOutcome = "unparseable"
    /\ state.technicalAnalysis.toxicity = JNum(DefaultToxicity)
    /\ state.textAnalysis.summary = JStr("Text analysis error")

NodesBesideDecision ==
    {"analyze_image", "analyze_text", "evaluate_image_replacement",
     "generate_image", "reanalyze_generated_image"}

\* C18: of the nodes only make_decision changes decision, nsfw_image and
\* violence, except that the re-analysis may set the two flags to false
C18_OnlyDecisionStepDecides ==
    [][(pc \in NodesBesideDecision) =>
         /\ state'.decision = state.decision
         /\ \/ /\ state'.technicalAnalysis.nsfw_image
                    = state.technicalAnalysis.nsfw_image
               /\ state'.technicalAnalysis.violence
                    = state.technicalAnalysis.violence
            \/ /\ pc = "reanalyze_generated_image"
               /\ state'.technicalAnalysis.nsfw_image = JBool(FALSE)
               /\ state'.technicalAnalysis.violence = JBool(FALSE)]_vars

\* the download of the generated image failed after a rejection: the
\* rejection stands
C18_Witness ==
    /\ pc = "finish"
    /\ reanOutcome = "download_failed"
    /\ baseDecision = JStr("rejected")
    /\ state.decision = JStr("rejected")
    /\ state.technicalAnalysis.nsfw_image = JBool(TRUE)

\* C19: make_decision leaves toxicity and nsfw_text as they were, absent
\* included, and leaves imageDescription, shouldReplaceImage and
\* generatedImageUrl alone
C19_DecisionStepKeepsTextFields ==
    [][(pc = "make_decision" /\ pc' = "evaluate_image_replacement") =>
         /\ state'.technicalAnalysis.toxicity = state.technicalAnalysis.toxicity
         /\ state'.technicalAnalysis.nsfw_text = state.technicalAnalysis.nsfw_text
         /\ state'.imageDescription = state.imageDescription
         /\ state'.shouldReplaceImage = state.shouldReplaceImage
         /\ state'.generatedImageUrl = state.generatedImageUrl]_vars

\* C20: for a submission without text the final record and the returned
\* technicalAnalysis have toxicity 0 and the reasoning shows a toxicity of 0
C20_NoTextToxicityZero ==
    (result.returned /\ textOutcome = "skipped")
        => /\ state.technicalAnalysis.toxicity = JNum(0)
           /\ result.technicalAnalysis.toxicity = JNum(0)
           /\ result.reasoning =
                buildReasoning(result.status,
                               [result.technicalAnalysis EXCEPT
                                   !.toxicity = JNum(0)])

-----------------------------------------------------------------------------
(* The run as a whole *)

StepOrder ==
    <<"analyze_image", "analyze_text", "make_decision",
      "evaluate_image_replacement", "generate_image",
      "reanalyze_generated_image", "finish">>

\* C22: the nodes run one after another in the order of the edges, a node
\* starts only from the record its predecessor returned, the workflow is
\* entered at analyze_image only and no node runs a second time
C22_StepsInFixedOrder ==
    [][/\ \A i \in 1..6 :
            pc = StepOrder[i] => pc' \in {StepOrder[i], StepOrder[i + 1], "threw"}
       /\ (pc \notin WorkflowNodes /\ pc' \in WorkflowNodes) =>
            (pc = "run_moderation" /\ pc' = "analyze_image")
       /\ \A c \in DOMAIN calls : calls'[c] <= 2
       /\ calls'["generation"] <= 1]_vars

\* a run in which every node called its capability
C22_Witness ==
    /\ pc = "finish"
    /\ calls["reasoning"] = 2
    /\ calls["vision"] = 2
    /\ calls["generation"] = 1

HelloWorldReasoning == "Content approved: Toxicity: 10.0%"

\* C25: a text-only submission with text, toxicity 0.1, nsfw_text false and
\* the verdict approved without flags returns approved with the reasoning
\* "Content approved: Toxicity: 10.0%", and the row the update wrote holds
\* that status and reasoning
C25_HelloWorldApproved ==
    (/\ result.returned
     /\ origImageUrl = JUndef
     /\ Truthy(state.content)
     /\ textOutcome = "parsed"
     /\ state.technicalAnalysis.toxicity = JNum(1)
     /\ state.technicalAnalysis.nsfw_text = JBool(FALSE)
     /\ baseDecision = JStr("approved")
     /\ state.technicalAnalysis.nsfw_image = JBool(FALSE)
     /\ state.technicalAnalysis.violence = JBool(FALSE))
        => /\ result.status = JStr("approved")
           /\ result.reasoning = HelloWorldReasoning
           /\ (pc = "done" /\ row.reasoning # JNull) =>
                /\ row.status = JStr("approved")
                /\ row.reasoning = JStr(HelloWorldReasoning)

C25_Witness ==
    /\ pc = "done"
    /\ request.type = JStr("text")
    /\ state.content = JStr("hello world")
    /\ state.technicalAnalysis.toxicity = JNum(1)
    /\ baseDecision = JStr("approved")
    /\ row.status = JStr("approved")
    /\ row.reasoning = JStr(HelloWorldReasoning)

\* a decision response that is no JSON, or an object without a decision
Undecided(resp) ==
    /\ ~resp.threw
    /\ \/ JsonParse(JsonStr(resp.raw)) = "error"
       \/ /\ JsonParse(JsonStr(resp.raw)) = "object"
          /\ resp.obj.decision = JUndef

\* a decision response from which no flags were read
NoFlagsParsed(resp) ==
    \/ JsonParse(JsonStr(resp.raw)) = "error"
    \/ ~resp.obj.technicalAnalysis.given

\* C28: on a decision response that is no JSON or has no decision the
\* decision step returns decision flagged, with nsfw_image and violence
\* false when no flags were read, and evaluate_image_replacement is next
C28_UndecidedMeansFlagged ==
    /\ pc = "make_decision" =>
         \A resp \in DecisionResponses : Undecided(resp) =>
             LET r == makeDecisionNode(state, resp)
             IN  /\ ~r.threw
                 /\ r.st.decision = JStr("flagged")
                 /\ NoFlagsParsed(resp) =>
                      /\ r.st.technicalAnalysis.nsfw_image = JBool(FALSE)
                      /\ r.st.technicalAnalysis.violence = JBool(FALSE)
    /\ decisionOutcome = "unparseable" =>
         /\ pc \in {"evaluate_image_replacement", "generate_image",
                    "reanalyze_generated_image"} \cup AfterWorkflow
         /\ state.decision = JStr("flagged")
         /\ pc = "evaluate_image_replacement" =>
              /\ state.technicalAnalysis.nsfw_image = JBool(FALSE)
              /\ state.technicalAnalysis.violence = JBool(FALSE)

C28_Witness ==
    /\ pc = "evaluate_image_replacement"
    /\ decisionOutcome = "unparseable"
    /\ state.decision = JStr("flagged")
    /\ state.technicalAnalysis.nsfw_image = JBool(FALSE)

\* C29: at the end of a run a generated image is present exactly when the
\* image counts as replaced, and then nsfw_image and violence are false and
\* shouldReplaceImage is true
C29_GeneratedImageIffReplaced ==
    pc \in AfterWorkflow =>
        /\ Truthy(state.generatedImageUrl) <=> imageReplacedByAi(state)
        /\ state.generatedImageUrl # JUndef <=> imageReplacedByAi(state)
        /\ imageReplacedByAi(state) =>
             /\ state.technicalAnalysis.nsfw_image = JBool(FALSE)
             /\ state.technicalAnalysis.violence = JBool(FALSE)
             /\ state.shouldReplaceImage

C29_Witness ==
    /\ pc = "finish"
    /\ state.generatedImageUrl = JStr("gen.png")
    /\ imageReplacedByAi(state)
    /\ state.shouldReplaceImage
    /\ baseDecision = JStr("flagged")

\* C30: at the end of a run shouldReplaceImage is true only with a generated
\* image
C30_PlannedMeansGenerated ==
    (pc \in AfterWorkflow /\ state.shouldReplaceImage)
        => Truthy(state.generatedImageUrl)

\* C31: the generation capability is called at most once in a run, and only
\* for a submission with an image and a non-empty text whose decision step
\* reported nsfw_image or violence with a toxicity below 0.7; so a final
\* record whose image was replaced has a toxicity below 0.7
C31_GenerationOnlyWhenWorthIt ==
    /\ calls["generation"] <= 1
    /\ calls["generation"] > 0 =>
         /\ origImageUrl.t = "string" /\ origImageUrl.s # ""
         /\ state.content.t = "string" /\ state.content.s # ""
         /\ \/ evalInput.technicalAnalysis.nsfw_image = JBool(TRUE)
            \/ evalInput.technicalAnalysis.violence = JBool(TRUE)
         /\ evalInput.technicalAnalysis.toxicity.t = "number"
         /\ evalInput.technicalAnalysis.toxicity.n < 7
    /\ (pc \in AfterWorkflow /\ imageReplacedByAi(state)) =>
         /\ calls["generation"] = 1
         /\ state.technicalAnalysis.toxicity.t = "number"
         /\ state.technicalAnalysis.toxicity.n < 7

\* a run that replaced a violent image next to a text just below the limit
C31_Witness ==
    /\ pc = "done"
    /\ calls["generation"] = 1
    /\ imageReplacedByAi(state)
    /\ evalInput.technicalAnalysis.violence = JBool(TRUE)
    /\ evalInput.technicalAnalysis.nsfw_image = JBool(FALSE)
    /\ state.technicalAnalysis.toxicity = JNum(6)

-----------------------------------------------------------------------------
(* The reasoning string *)

\* nsfw_text, nsfw_image, violence and image_replaced_by_ai are false or
\* absent
NoFlagFinding(analysis) ==
    /\ ~Truthy(analysis.nsfw_text)
    /\ ~Truthy(analysis.nsfw_image)
    /\ ~Truthy(analysis.violence)
    /\ ~Truthy(analysis.image_replaced_by_ai)

\* C23 as stated: with toxicity 0 or absent and no other finding the
\* reasoning is the prefix of the status and nothing more
C23_NoFindingGivesPrefix ==
    (/\ result.returned
     /\ NoFlagFinding(result.technicalAnalysis)
     /\ result.technicalAnalysis.toxicity \in {JUndef, JNum(0)})
        => result.reasoning = ReasoningPrefix(result.status)

\* C23 amended: with toxicity absent and no other finding the reasoning is
\* the prefix of the status and nothing more; with toxicity 0 and no other
\* finding it is the prefix followed by " Toxicity: 0.0%"
C23_AbsentToxicityGivesPrefix ==
    (result.returned /\ NoFlagFinding(result.technicalAnalysis))
        => /\ result.technicalAnalysis.toxicity = JUndef
                => result.reasoning = ReasoningPrefix(result.status)
           /\ result.technicalAnalysis.toxicity = JNum(0)
                => result.reasoning =
                       ReasoningPrefix(result.status) \o " Toxicity: 0.0%"

\* a record without any finding rendered as the bare prefix
C23_Witness ==
    /\ result.returned
    /\ result.technicalAnalysis.present
    /\ result.technicalAnalysis.toxicity = JUndef
    /\ NoFlagFinding(result.technicalAnalysis)
    /\ result.status = JStr("approved")
    /\ result.reasoning = "Content approved:"

\* the findings before the image-replaced one, as the claim lists them
FindingsBeforeReplacement(analysis) ==
    (IF analysis.toxicity # JUndef
     THEN <<"Toxicity: " \o ToString(analysis.toxicity.n * 10) \o ".0%">>
     ELSE <<>>)
    \o (IF Truthy(analysis.nsfw_text) THEN <<"NSFW text detected">> ELSE <<>>)
    \o (IF Truthy(analysis.nsfw_image) THEN <<"NSFW image detected">> ELSE <<>>)
    \o (IF Truthy(analysis.violence) THEN <<"Violence detected">> ELSE <<>>)

ClaimedPrefix(status) ==
    CASE status = JStr("approved") -> "Content approved:"
      [] status = JStr("flagged") -> "Content flagged for review:"
      [] status = JStr("rejected") -> "Content rejected:"

Rendered(prefix, findings) ==
    IF findings = <<>> THEN prefix ELSE prefix \o " " \o join(findings)

\* C24: the reasoning is the prefix of the status followed by the findings
\* toxicity, NSFW text, NSFW image, violence, image-replaced, each present
\* exactly when its value is: without a replacement the string is the
\* rendering of the first four, with a replacement it holds one finding more
C24_ReasoningListsFindings ==
    (result.returned /\ result.status \in Verdicts)
        => LET analysis == result.technicalAnalysis
               others == Rendered(ClaimedPrefix(result.status),
                                  FindingsBeforeReplacement(analysis))
           IN  IF Truthy(analysis.image_replaced_by_ai)
               THEN result.reasoning # others
               ELSE result.reasoning = others

-----------------------------------------------------------------------------
(* The prompt of the image generation *)

\* C21: what is posted to the images endpoint is the sanitized content: the
\* fixed template around a text of letters, digits and whitespace only, of
\* at most 300 characters
C21_PromptIsSanitized ==
    calls["generation"] > 0 =>
        /\ sentPrompt = sanitizePromptForImageGeneration(promptText)
        /\ sentPrompt.before
             = "A professional, family-friendly illustration based on: \""
        /\ sentPrompt.after = "\". Safe for all ages."
        /\ \A i \in 1..Len(sentPrompt.cleaned) :
             sentPrompt.cleaned[i].c \in {"a", "7", " "}
        /\ length(sentPrompt.cleaned) <= 300

\* a content longer than the limit with punctuation in it, cut to the limit
C21_Witness ==
    /\ calls["generation"] > 0
    /\ length(promptText) > 300
    /\ \E i \in 1..Len(promptText) : promptText[i].c = "!"
    /\ length(sentPrompt.cleaned) = 300

-----------------------------------------------------------------------------
(* Runs side by side *)

\* the workflow run alone on a state with these answers, node after node
RECURSIVE Alone(_, _, _)
Alone(st, i, answers) ==
    IF i > Len(answers) THEN [threw |-> FALSE, st |-> st]
    ELSE LET res == ApplyNode(StepOrder[i], st, answers[i])
         IN  IF res.threw THEN [threw |-> TRUE, st |-> st]
             ELSE Alone(res.st, i + 1, answers)

-----------------------------------------------------------------------------
(* The answer of the fire-and-forget submit *)

\* C32: the row is in the store as pending/queued before the run does
\* anything; the accepted submit can answer at every point of the run, its
\* answer is pending/queued with the image of the request and nothing of the
\* run's outcome, and it is never an exception, whatever became of the run
C32_SubmitAnswersPendingQueued ==
    /\ pc = "enter_analyzing" =>
         /\ row.exists
         /\ row.status = JStr("pending")
         /\ row.moderation_stage = JStr("queued")
    /\ (fetched # "not yet" \/ calls # NoCalls) => row.exists
    /\ (row.exists /\ response.kind = "none") => ENABLED Respond
    /\ row.exists => response.kind # "threw"
    /\ response.kind = "threw" => (pc = "threw" /\ calls = NoCalls)
    /\ response.kind = "returned" =>
         /\ row.exists
         /\ response.status = JStr("pending")
         /\ response.moderation_stage = JStr("queued")
         /\ response.imageUrl
              = (IF request.file THEN JStr("orig.jpg") ELSE JNull)
         /\ response.message = "Submission received. Processing..."

\* the run failed and was marked in the row, the submitter got
\* pending/queued
C32_Witness ==
    /\ pc = "caught"
    /\ error # ""
    /\ row.moderation_stage = JStr("error")
    /\ row.status = JStr("flagged")
    /\ response.kind = "returned"
    /\ response.status = JStr("pending")

====
